---- MODULE Spec2Model ----
(***************************************************************************)
(* A model of stateloop: the fixed-timestep run loop of App (app.rs), the  *)
(* dispatcher generated by the states! macro (state.rs) instantiated as in *)
(* the test program (test/src/main.rs), and the MaybeResult normalisation  *)
(* of initializer results (error.rs).                                      *)
(*                                                                         *)
(* Time is counted in whole milliseconds since the construction of the     *)
(* App; an Instant is the value of the wall clock `now`.                   *)
(***************************************************************************)
EXTENDS Integers, Sequences, FiniteSets, TLC

\* ------------------------------------------------------------------ bounds

\* The wall clock stops advancing at MaxTime milliseconds.
MaxTime == 7

\* The event source delivers at most MaxEvents events in a run.
MaxEvents == 2

\* The catch-up loop is followed for at most MaxTicks handle_tick calls.
MaxTicks == 7

\* In a run of the test program the wall clock stops at MaxMainTime ms.
MaxMainTime == 17

\* ------------------------------------------------------- program constants

\* app.rs:108, the 1000.0 of `1000.0 / fps as f64`: milliseconds per second.
MillisPerSec == 1000

\* main.rs:429, the payload of the initial state State::Test(15).
InitialTest == 15

\* main.rs:429, the target rate of run(60, State::Test(15)).
FpsMain == 60

\* The target rates run is started with: 500 and 600 give a frame budget of
\* 2 ms and 1 ms, 2000 gives a frame budget of 0 ms.
FpsValues == {500, 600, 2000}

\* Payloads of Test(test: usize) that handlers put in Done(Test(n)).
TestPayloads == {InitialTest, InitialTest + 1}

\* winit::WindowEvent, as far as a handler of the test program tells the
\* variants apart (main.rs:76-79).
EventKinds == {"CloseRequested", "Resized"}

\* ------------------------------------------------------------ states! macro

\* The macro input of the test program (main.rs:47-52): one triple
\* ($trait $name($($arg: $t),*)) per variant.
Arms ==
    << [trait |-> "MainHandler", name |-> "Main", nargs |-> 0],
       [trait |-> "TestHandler", name |-> "Test", nargs |-> 1] >>

\* state.rs:41-43: the generated enum, pub enum $enum { $($name($($t,)*),)+ }.
StateEnum ==
    { [name |-> "Main", args |-> << >>] }
        \cup { [name |-> "Test", args |-> <<n>>] : n \in TestPayloads }

\* state.rs:24-28: enum Action<S> { Continue, Done(S), Quit }.
Continue == [kind |-> "Continue"]
Done(s) == [kind |-> "Done", next |-> s]
Quit == [kind |-> "Quit"]
Action == {Continue, Quit} \cup { Done(s) : s \in StateEnum }

\* The arms of a generated `match self { ... }` that match the value self,
\* in the order the macro emits them.
MatchingArms(self) == { i \in 1..Len(Arms) : Arms[i].name = self.name }

\* A Rust match runs the first arm that matches.
FirstArm(self) == CHOOSE i \in MatchingArms(self) : \A j \in MatchingArms(self) : i <= j

\* Mutant of ArmCall: every value is forwarded to the first arm's trait.
ArmCallFirstTrait(self, method, event) ==
    [trait |-> Arms[1].trait, method |-> method, event |-> event, args |-> self.args]

\* Mutant of ArmCall: the payload is not threaded through.
ArmCallNoArgs(self, method, event) ==
    [trait |-> Arms[FirstArm(self)].trait, method |-> method, event |-> event, args |-> << >>]

\* state.rs:55-57, 61-63, 67-69: $enum::$name($($arg),*) =>
\* $trait::<method>(app [, event] $(, $arg)*): the call an arm makes.
ArmCall(self, method, event) ==
    [trait |-> Arms[FirstArm(self)].trait, method |-> method, event |-> event, args |-> self.args]

NoEvent == [id |-> 0, kind |-> "none"]

\* state.rs:54-58
State_handle_event(self, event) == ArmCall(self, "handle_event", event)

\* state.rs:60-64
State_handle_tick(self) == ArmCall(self, "handle_tick", NoEvent)

\* state.rs:66-70
State_handle_render(self) == ArmCall(self, "handle_render", NoEvent)

\* ------------------------------------------------------------------ error.rs

\* What an initializer may return: a plain value, an Option or a Result.
InitReturns ==
    { [shape |-> "plain", v |-> "d"], [shape |-> "Some", v |-> "d"],
      [shape |-> "None", v |-> "unit"],
      [shape |-> "Ok", v |-> "d"], [shape |-> "Err", v |-> "e2"] }

\* Mutant of as_result: the impl for T (error.rs:12-18) is the one used for
\* every return value, so whatever is returned is wrapped in Ok.
as_resultBlanketOnly(x) == [shape |-> "Ok", v |-> x.v]

\* error.rs:12-37: MaybeResult::as_result for T, Option<T> and Result<T, E>.
as_result(x) ==
    CASE x.shape = "plain" -> [shape |-> "Ok", v |-> x.v]
      [] x.shape = "Some" -> [shape |-> "Ok", v |-> x.v]
      [] x.shape = "None" -> [shape |-> "Err", v |-> "unit"]
      [] x.shape \in {"Ok", "Err"} -> x

\* ------------------------------------------------------------------- state

VARIABLES
    pc,         \* where the program is: new, data, failed, built, loop, poll, render,
                \* account, catchup, sleep, sleeping, returned, panicked
    winRet,     \* new's local: what the window stage returned (app.rs:60-62)
    dataRet,    \* new's local: what the data initializer returned
    dataCalls,  \* how many times the data initializer has been called
    dataArg,    \* new's local: the window the data initializer was called with
    result,     \* what App::new returned, NoResult before it returns
    fps,        \* run's fps argument
    spf,        \* run's local spf, milliseconds
    state,      \* run's local state
    hstate,     \* handle_events' local state
    quit,       \* handle_events' local quit
    queue,      \* events the current poll_events call has still to deliver
    pending,    \* events at the event source that no poll_events call has taken
    accum,      \* run's local accum, milliseconds
    prev,       \* run's local prev
    now,        \* the wall clock
    wake,       \* when the current sleep ends, 0 when run is not sleeping
    ticks,      \* handle_tick calls made since run started
    last,       \* the latest dispatch: operation, receiver, call made, result
    before,     \* the result of the dispatch before the latest one
    quitSeen,   \* some handle_event call has returned Quit
    handled,    \* ids of the events passed to handle_event, in call order
    arrived,    \* events the source has delivered so far (their ids are 1..arrived)
    taken,      \* the value of arrived when the latest poll_events call began
    frame,      \* the operations dispatched in the current iteration of run
    frameStart, \* the wall clock when the current iteration of run began
    start,      \* the wall clock when run took its first timestamp (app.rs:106)
    asleep,     \* ids of the events that arrived during the current or latest sleep
    added,      \* accum as app.rs:115 left it, from then to the end of the sleep
    sleepFor,   \* the duration the current sleep was called with (app.rs:124)
    due         \* ids of the events that arrived during the sleep before this iteration

vars ==
    << pc, winRet, dataRet, dataCalls, dataArg, result, fps, spf, state, hstate, quit,
       queue, pending, accum, prev, now, wake, ticks, last, before, quitSeen, handled,
       arrived, taken, frame, frameStart, start, asleep, added, sleepFor, due >>

newVars == << winRet, dataRet, dataCalls, dataArg, result >>
paceVars == << added, sleepFor >>
loopVars == << fps, spf, state, hstate, quit, accum, prev, wake, ticks, paceVars >>
histVars == << last, before, quitSeen, handled, frame, frameStart, start >>
srcVars == << queue, pending, arrived, taken, asleep, due >>

NoState == [name |-> "none", args |-> << >>]
NoReturn == [shape |-> "none", v |-> "none"]
NoResult == [shape |-> "none", tag |-> "none", v |-> "none", window |-> "none", data |-> "none"]
NoAction == [kind |-> "none"]
NoCall == [trait |-> "none", method |-> "none", event |-> NoEvent, args |-> << >>]
NoDispatch == [op |-> "none", self |-> NoState, event |-> NoEvent, call |-> NoCall, action |-> NoAction]

Init ==
    /\ pc = "new"
    /\ winRet = NoReturn /\ dataRet = NoReturn /\ dataCalls = 0 /\ dataArg = "none"
    /\ result = NoResult
    /\ fps = 0 /\ spf = 0
    /\ state = NoState /\ hstate = NoState /\ quit = FALSE
    /\ queue = << >> /\ pending = << >>
    /\ accum = 0 /\ prev = 0 /\ now = 0 /\ wake = 0 /\ ticks = 0
    /\ last = NoDispatch /\ before = NoAction /\ quitSeen = FALSE
    /\ handled = << >> /\ arrived = 0 /\ taken = 0
    /\ frame = << >> /\ frameStart = 0 /\ start = 0
    /\ asleep = {} /\ due = {}
    /\ added = 0 /\ sleepFor = 0

\* ------------------------------------------------------------- App::new

\* What build_vk_surface returns (app.rs:60-61): the window or a CreationError.
WindowReturns == { [shape |-> "Ok", v |-> "w"], [shape |-> "Err", v |-> "e1"] }

\* Mutant of AfterWindow: a failed window stage goes on to the data stage.
AfterWindowNoShortCircuit(r) == "data"

\* app.rs:62, the `?` after map_err: an Err returns from new, an Ok goes on.
AfterWindow(r) == IF r.shape = "Err" THEN "failed" ELSE "data"

\* Mutant of WindowError: a failed window stage is reported as a data error.
WindowErrorAsData(r) ==
    [shape |-> "Err", tag |-> "DataError", v |-> r.v, window |-> "none", data |-> "none"]

\* app.rs:62: .map_err(Error::WindowCreation)
WindowError(r) ==
    [shape |-> "Err", tag |-> "WindowCreation", v |-> r.v, window |-> "none", data |-> "none"]

\* Mutant of DataResult: a failed data stage is reported as a window error.
DataResultWindowTag(window, r) ==
    LET n == as_result(r)
    IN IF n.shape = "Err"
         THEN [shape |-> "Err", tag |-> "WindowCreation", v |-> n.v, window |-> "none", data |-> "none"]
         ELSE [shape |-> "Ok", tag |-> "App", v |-> "app", window |-> window, data |-> n.v]

\* The data stage of construction: the initializer's return value is
\* normalised by as_result; an Err becomes AppError::DataError (error.rs:42),
\* an Ok is stored with the window (app.rs:66-72).
DataResult(window, r) ==
    LET n == as_result(r)
    IN IF n.shape = "Err"
         THEN [shape |-> "Err", tag |-> "DataError", v |-> n.v, window |-> "none", data |-> "none"]
         ELSE [shape |-> "Ok", tag |-> "App", v |-> "app", window |-> window, data |-> n.v]

\* app.rs:59-62: the event loop is created and the window is built.
WindowStage ==
    /\ pc = "new"
    /\ \E r \in WindowReturns :
        /\ winRet' = r
        /\ pc' = AfterWindow(r)
        /\ result' = IF pc' = "failed" THEN WindowError(r) ELSE result
    /\ UNCHANGED << dataRet, dataCalls, dataArg, loopVars, histVars, srcVars, now >>

\* app.rs:64-72: g(&window), then the App is returned.
DataStage ==
    /\ pc = "data"
    /\ \E r \in InitReturns :
        /\ dataRet' = r
        /\ dataCalls' = dataCalls + 1
        /\ dataArg' = winRet.v
        /\ result' = DataResult(winRet.v, r)
        /\ pc' = IF result'.shape = "Ok" THEN "built" ELSE "failed"
    /\ UNCHANGED << winRet, loopVars, histVars, srcVars, now >>

\* ------------------------------------------------------------- App::run

RunPcs == {"loop", "poll", "render", "account", "catchup", "sleep", "sleeping"}

\* app.rs:108: Duration::from_millis((1000.0 / fps as f64) as u64), for fps >= 1.
SpfMillis(f) == MillisPerSec \div f

\* app.rs:104-108: run(fps, state) up to the loop. The App that new returned
\* is what run is called on; the locals of new are gone by then.
Run ==
    /\ pc = "built"
    /\ \E f \in FpsValues, s \in StateEnum :
        /\ fps' = f
        /\ spf' = SpfMillis(f)
        /\ state' = s
    /\ accum' = 0
    /\ prev' = now
    /\ pc' = "loop"
    /\ winRet' = NoReturn /\ dataRet' = NoReturn /\ dataArg' = "none"
    /\ start' = now
    /\ UNCHANGED paceVars
    /\ UNCHANGED << dataCalls, result, hstate, quit, wake, ticks, last, before, quitSeen,
                    handled, frame, frameStart, srcVars, now >>

\* Mutant of NextState: Continue falls back to the first variant.
NextStateContinueResets(st, a) ==
    CASE a.kind = "Continue" -> [name |-> Arms[1].name, args |-> << >>]
      [] a.kind = "Done" -> a.next
      [] a.kind = "Quit" -> st

\* Mutant of NextState: Done(next) keeps the old state.
NextStateKeepsOld(st, a) == st

\* app.rs:87-94: the value `state` is assigned after a handle_event call.
NextState(st, a) ==
    CASE a.kind = "Continue" -> st
      [] a.kind = "Done" -> a.next
      [] a.kind = "Quit" -> st

\* Mutant of NextQuit: every arm assigns the flag.
NextQuitLatest(q, a) == a.kind = "Quit"

\* app.rs:90-93: quit = true in the Quit arm.
NextQuit(q, a) == IF a.kind = "Quit" THEN TRUE ELSE q

None == [some |-> FALSE, v |-> NoState]
Some(s) == [some |-> TRUE, v |-> s]

\* Mutant of HandleEventsResult: the quit flag is not looked at.
HandleEventsResultIgnoresQuit(q, st) == Some(st)

\* Mutant of HandleEventsResult: the test of the quit flag is inverted.
HandleEventsResultInverted(q, st) == IF q THEN Some(st) ELSE None

\* app.rs:97-101
HandleEventsResult(q, st) == IF q THEN None ELSE Some(st)

Dispatch(op, self, event, call, a) ==
    [op |-> op, self |-> self, event |-> event, call |-> call, action |-> a]

\* app.rs:110 and 75-81: handle_events(state) is called and poll_events takes
\* the events that are queued.
HandleEventsBegin ==
    /\ pc = "loop"
    /\ hstate' = state
    /\ quit' = FALSE
    /\ queue' = pending
    /\ pending' = << >>
    /\ taken' = arrived
    /\ due' = asleep
    /\ asleep' = {}
    /\ frame' = << >>
    /\ frameStart' = now
    /\ pc' = "poll"
    /\ UNCHANGED paceVars
    /\ UNCHANGED << newVars, fps, spf, state, accum, prev, wake, ticks, last, before,
                    quitSeen, handled, arrived, start, now >>

\* Mutant of TakeEvent: the newest queued event is delivered first.
TakeEventNewest(q) == q[Len(q)]

\* app.rs:81-85: poll_events hands the closure the oldest queued event.
TakeEvent(q) == Head(q)

\* app.rs:81-95: the closure poll_events calls for one event.
PollEvent ==
    /\ pc = "poll"
    /\ queue # << >>
    /\ LET e == TakeEvent(queue)
       IN \E a \in Action :
            /\ last' = Dispatch("handle_event", hstate, e, State_handle_event(hstate, e), a)
            /\ hstate' = NextState(hstate, a)
            /\ quit' = NextQuit(quit, a)
            /\ quitSeen' = (quitSeen \/ a.kind = "Quit")
            /\ handled' = Append(handled, e.id)
    /\ before' = last.action
    /\ queue' = Tail(queue)
    /\ frame' = Append(frame, "handle_event")
    /\ UNCHANGED paceVars
    /\ UNCHANGED << pc, newVars, fps, spf, state, accum, prev, wake, ticks, pending,
                    arrived, taken, asleep, due, frameStart, start, now >>

\* Mutant of AfterEvents: the loop body starts at the timestep accounting.
AfterEventsSkipsRender(ret) == IF ret.some THEN "account" ELSE "returned"

\* Mutant of AfterEvents: a None from handle_events starts the next iteration.
AfterEventsRestarts(ret) == IF ret.some THEN "render" ELSE "loop"

\* app.rs:110-112: `while let Some(next) = ...` enters the body, whose first
\* call is handle_render, or ends the loop, after which run returns.
AfterEvents(ret) == IF ret.some THEN "render" ELSE "returned"

\* app.rs:97-101 and 110-111: handle_events returns; `while let Some(next)`
\* either binds state = next or leaves the loop, and run returns.
HandleEventsReturn ==
    /\ pc = "poll"
    /\ queue = << >>
    /\ LET ret == HandleEventsResult(quit, hstate)
       IN /\ pc' = AfterEvents(ret)
          /\ state' = IF ret.some THEN ret.v ELSE state
    /\ UNCHANGED paceVars
    /\ UNCHANGED << newVars, fps, spf, hstate, quit, accum, prev, wake, ticks, histVars,
                    srcVars, now >>

\* Mutant of StateAfterCall: the call leaves the first variant behind.
StateAfterCallResets(st) == [name |-> Arms[1].name, args |-> << >>]

\* app.rs:112 and 121: handle_render and handle_tick take a copy of the state
\* (State: Copy, state.rs:30-33) and return nothing; run's state is as it was.
StateAfterCall(st) == st

\* app.rs:112
Render ==
    /\ pc = "render"
    /\ last' = Dispatch("handle_render", state, NoEvent, State_handle_render(state), NoAction)
    /\ before' = last.action
    /\ frame' = Append(frame, "handle_render")
    /\ pc' = "account"
    /\ state' = StateAfterCall(state)
    /\ UNCHANGED << newVars, fps, spf, hstate, quit, accum, prev, wake, ticks, paceVars,
                    quitSeen, handled, frameStart, start, srcVars, now >>

\* Mutant of Accumulate: the remainder of the previous iteration is dropped.
AccumulateElapsedOnly(a, n, p) == n - p

\* app.rs:115: accum += now - prev.
Accumulate(a, n, p) == a + (n - p)

\* app.rs:114-116
Account ==
    /\ pc = "account"
    /\ accum' = Accumulate(accum, now, prev)
    /\ added' = accum'
    /\ UNCHANGED sleepFor
    /\ prev' = now
    /\ pc' = "catchup"
    /\ UNCHANGED << newVars, fps, spf, state, hstate, quit, wake, ticks, histVars,
                    srcVars, now >>

\* Mutant of NeedsTick: a whole step is left in the accumulator.
NeedsTickStrict(a, s) == a > s

\* app.rs:118: the condition of `while accum >= spf`.
NeedsTick(a, s) == a >= s

\* app.rs:118-122: one turn of `while accum >= spf`.
Tick ==
    /\ pc = "catchup"
    /\ NeedsTick(accum, spf)
    /\ ticks < MaxTicks
    /\ accum' = accum - spf
    /\ last' = Dispatch("handle_tick", state, NoEvent, State_handle_tick(state), NoAction)
    /\ before' = last.action
    /\ frame' = Append(frame, "handle_tick")
    /\ ticks' = ticks + 1
    /\ state' = StateAfterCall(state)
    /\ UNCHANGED paceVars
    /\ UNCHANGED << pc, newVars, fps, spf, hstate, quit, prev, wake, quitSeen,
                    handled, frameStart, start, srcVars, now >>

\* app.rs:118: the condition of the catch-up loop is false.
CatchupEnd ==
    /\ pc = "catchup"
    /\ ~NeedsTick(accum, spf)
    /\ pc' = "sleep"
    /\ UNCHANGED << newVars, loopVars, histVars, srcVars, now >>

\* Mutant of SleepDuration: a whole frame budget, whatever is left over.
SleepDurationWhole(s, a) == s

\* Mutant of SleepDuration: the operands are the wrong way round.
SleepDurationSwapped(s, a) == a - s

\* app.rs:124: the argument spf - accum of sleep.
SleepDuration(s, a) == s - a

\* app.rs:124: sleep(spf - accum); Duration's subtraction panics when the
\* result would be negative.
Sleep ==
    /\ pc = "sleep"
    /\ pc' = IF SleepDuration(spf, accum) < 0 THEN "panicked" ELSE "sleeping"
    /\ wake' = IF SleepDuration(spf, accum) < 0 THEN wake ELSE now + SleepDuration(spf, accum)
    /\ sleepFor' = IF SleepDuration(spf, accum) < 0 THEN sleepFor ELSE SleepDuration(spf, accum)
    /\ UNCHANGED added
    /\ UNCHANGED << newVars, fps, spf, state, hstate, quit, accum, prev, ticks, histVars,
                    srcVars, now >>

\* app.rs:124-125: the sleep is over and the loop goes round.
Wake ==
    /\ pc = "sleeping"
    /\ now >= wake
    /\ pc' = "loop"
    /\ wake' = 0 /\ added' = 0 /\ sleepFor' = 0
    /\ UNCHANGED << newVars, fps, spf, state, hstate, quit, accum, prev, ticks, histVars,
                    srcVars, now >>

\* The wall clock advances by a millisecond. run reads the clock in one place,
\* app.rs:114, and sleeps for a duration, so the time that event handlers and
\* handle_render take passes at "render" (before the clock is read), and the
\* time that handle_tick calls and the sleep take passes at "sleeping" (before
\* the next iteration reads it).
Elapse ==
    /\ pc \in {"render", "sleeping"}
    /\ now < MaxTime
    /\ now' = now + 1
    /\ UNCHANGED << pc, newVars, loopVars, histVars, srcVars >>

\* The event source gets an event for the window. poll_events delivers the
\* events queued when it is called; one that arrives while it is delivering
\* may be delivered by the same call or left for the next.
Arrive ==
    /\ pc \in RunPcs \cup {"built"}
    /\ arrived < MaxEvents
    /\ arrived' = arrived + 1
    /\ asleep' = IF pc = "sleeping" THEN asleep \cup {arrived + 1} ELSE asleep
    /\ \E k \in EventKinds, join \in BOOLEAN :
        LET e == [id |-> arrived + 1, kind |-> k]
        IN IF join /\ pc = "poll" /\ pending = << >>
             THEN queue' = Append(queue, e) /\ pending' = pending
             ELSE pending' = Append(pending, e) /\ queue' = queue
    /\ UNCHANGED << pc, newVars, loopVars, histVars, taken, due, now >>

Next ==
    \/ WindowStage
    \/ DataStage
    \/ Run
    \/ HandleEventsBegin
    \/ PollEvent
    \/ HandleEventsReturn
    \/ Render
    \/ Account
    \/ Tick
    \/ CatchupEnd
    \/ Sleep
    \/ Wake
    \/ Elapse
    \/ Arrive

Spec == Init /\ [][Next]_vars

\* ------------------------------------------------- the test program

\* main.rs:74-80 and 211-214: handle_event of MainHandler and of TestHandler
\* for Data, applied to the call the dispatcher makes.
Data_handle_event(call) ==
    CASE call.trait = "MainHandler" ->
            IF call.event.kind = "CloseRequested" THEN Quit ELSE Continue
      [] call.trait = "TestHandler" -> Done([name |-> "Main", args |-> << >>])

\* main.rs:429: run(60, State::Test(15)) up to the loop (app.rs:104-108).
RunMain ==
    /\ pc = "built"
    /\ fps' = FpsMain
    /\ spf' = SpfMillis(FpsMain)
    /\ state' = [name |-> "Test", args |-> <<InitialTest>>]
    /\ accum' = 0
    /\ prev' = now
    /\ pc' = "loop"
    /\ winRet' = NoReturn /\ dataRet' = NoReturn /\ dataArg' = "none"
    /\ start' = now
    /\ UNCHANGED paceVars
    /\ UNCHANGED << dataCalls, result, hstate, quit, wake, ticks, last, before, quitSeen,
                    handled, frame, frameStart, srcVars, now >>

\* app.rs:81-95 with the handlers of the test program.
PollEventMain ==
    /\ pc = "poll"
    /\ queue # << >>
    /\ LET e == TakeEvent(queue)
           call == State_handle_event(hstate, e)
           a == Data_handle_event(call)
       IN /\ last' = Dispatch("handle_event", hstate, e, call, a)
          /\ hstate' = NextState(hstate, a)
          /\ quit' = NextQuit(quit, a)
          /\ quitSeen' = (quitSeen \/ a.kind = "Quit")
          /\ handled' = Append(handled, e.id)
    /\ before' = last.action
    /\ queue' = Tail(queue)
    /\ frame' = Append(frame, "handle_event")
    /\ UNCHANGED paceVars
    /\ UNCHANGED << pc, newVars, fps, spf, state, accum, prev, wake, ticks, pending,
                    arrived, taken, asleep, due, frameStart, start, now >>

\* The wall clock during a run of the test program; see Elapse.
ElapseMain ==
    /\ pc \in {"render", "sleeping"}
    /\ now < MaxMainTime
    /\ now' = now + 1
    /\ UNCHANGED << pc, newVars, loopVars, histVars, srcVars >>

NextMain ==
    \/ WindowStage
    \/ DataStage
    \/ RunMain
    \/ HandleEventsBegin
    \/ PollEventMain
    \/ HandleEventsReturn
    \/ Render
    \/ Account
    \/ Tick
    \/ CatchupEnd
    \/ Sleep
    \/ Wake
    \/ ElapseMain
    \/ Arrive

\* The test program: main.rs:405-429.
SpecMain == Init /\ [][NextMain]_vars

\* run as main.rs:429 starts it, 60 frames a second from Test(15), with
\* handlers that may return any Action (app.rs:104-126).
NextFair ==
    \/ WindowStage
    \/ DataStage
    \/ RunMain
    \/ HandleEventsBegin
    \/ PollEvent
    \/ HandleEventsReturn
    \/ Render
    \/ Account
    \/ Tick
    \/ CatchupEnd
    \/ Sleep
    \/ Wake
    \/ ElapseMain
    \/ Arrive

\* poll_events calls the closure for every event it has queued and then
\* returns, and handle_events returns after it (app.rs:81-101): a drain that
\* can go on does go on.
FairSpec ==
    /\ Init
    /\ [][NextFair]_vars
    /\ WF_vars(PollEvent)
    /\ WF_vars(HandleEventsReturn)

\* ------------------------------------------------------------------ claims

\* C1 (state continuity): when a handle_event call returned Done(next), the
\* dispatch that follows it (handle_event, handle_render or handle_tick) has
\* next as its receiver.
StateContinuity == before.kind = "Done" => last.self = before.next

\* A handle_event call returned Done(Test(16)) and handle_render was then
\* called on Test(16).
StateContinuityWitness ==
    /\ before = Done([name |-> "Test", args |-> <<InitialTest + 1>>])
    /\ last.op = "handle_render"
    /\ last.self = before.next

\* C2 (quit immediacy): once a handle_event call has returned Quit, no
\* handle_render and no handle_tick call is made, and the program is either
\* still in that drain or has returned from run.
QuitImmediacy == quitSeen => (last.op = "handle_event" /\ pc \in {"poll", "returned"})

\* Quit was returned in an iteration after ticks had been made, and run has
\* returned.
QuitImmediacyWitness == quitSeen /\ pc = "returned" /\ ticks > 0

\* C3 (accumulator bound): when the catch-up loop of an iteration has ended,
\* 0 <= accum < spf; the accumulator is never negative.
AccumBound == accum >= 0 /\ (pc \in {"sleep", "sleeping"} => accum < spf)

\* A catch-up phase that made ticks has ended with a remainder in the
\* accumulator.
AccumBoundWitness == pc = "sleep" /\ accum > 0 /\ frame[Len(frame)] = "handle_tick"

Abs(x) == IF x < 0 THEN -x ELSE x

\* The wall-clock time run has been running at its latest timestamp, in ms.
RunTime == prev - start

\* C4 (tick-count bound): at the end of a catch-up phase the number N of
\* handle_tick calls made so far and the running time T satisfy
\* |N - T*F| <= 1 (T in seconds; here both sides are multiplied by 1000).
TickCountBound ==
    pc = "sleep" => Abs(ticks * MillisPerSec - RunTime * fps) <= MillisPerSec

\* The same bound for the rates whose period is a whole number of
\* milliseconds, for which spf is the exact period.
TickCountBoundExactPeriod ==
    (pc = "sleep" /\ spf * fps = MillisPerSec) =>
        Abs(ticks * MillisPerSec - RunTime * fps) <= MillisPerSec

\* The phase of an iteration an operation belongs to.
Rank(op) ==
    CASE op = "handle_event" -> 1
      [] op = "handle_render" -> 2
      [] op = "handle_tick" -> 3

Renders == Cardinality({ i \in 1..Len(frame) : frame[i] = "handle_render" })

\* C5 (phase ordering): the calls of one iteration are handle_event calls,
\* then handle_render, then handle_tick calls; an iteration that has got past
\* its event phase without quitting has called handle_render exactly once,
\* with no event of its drain left undelivered.
PhaseOrdering ==
    /\ \A i, j \in 1..Len(frame) : i < j => Rank(frame[i]) <= Rank(frame[j])
    /\ Renders <= 1
    /\ pc = "render" => (Renders = 0 /\ queue = << >>)
    /\ pc \in {"account", "catchup", "sleep", "sleeping"} => (Renders = 1 /\ queue = << >>)

\* An iteration that handled two events, rendered and then ticked twice.
PhaseOrderingWitness ==
    /\ pc = "sleep"
    /\ frame = << "handle_event", "handle_event", "handle_render", "handle_tick", "handle_tick" >>

HandledIds == { handled[i] : i \in 1..Len(handled) }

\* C6 (event delivery order): the events are passed to handle_event in the
\* order the source delivered them, each once and none skipped; the events
\* not yet handled are those still queued, in order; an event that arrived
\* during a sleep is not handled while the loop sleeps, and is handled by the
\* time the next iteration renders.
EventOrder ==
    /\ handled = [ i \in 1..Len(handled) |-> i ]
    /\ queue \o pending = [ i \in 1..(arrived - Len(handled)) |-> [id |-> Len(handled) + i, kind |-> (queue \o pending)[i].kind] ]
    /\ pc \in {"sleeping", "loop"} => asleep \cap HandledIds = {}
    /\ pc \in {"render", "account", "catchup", "sleep", "sleeping"} =>
            (due \subseteq HandledIds /\ Len(handled) >= taken)

\* Two events arrived during a sleep and both have been handled when the
\* next iteration is about to render.
EventOrderWitness == pc = "render" /\ due = {1, 2} /\ handled = << 1, 2 >>

\* C7 (no exit without Quit): run has returned only if some handle_event call
\* returned Quit, and the loop is not left by a panic of its own.
NoExitWithoutQuit == (pc = "returned" => quitSeen) /\ pc # "panicked"

\* run has returned after an iteration that followed ticks, Quit having been
\* returned by the first event.
NoExitWithoutQuitWitness == pc = "returned" /\ quitSeen /\ ticks > 0 /\ Len(handled) = 1

\* App::new is running or has returned, and run has not taken the App yet.
InNew == pc \in {"data", "built", "failed"}

\* C8 (two-stage construction): the data initializer is called at most once,
\* only after the window stage has succeeded and with the window it built;
\* when the window stage fails the data initializer is not called and new
\* returns an error.
TwoStage ==
    /\ dataCalls <= 1
    /\ pc = "data" => (winRet.shape = "Ok" /\ dataCalls = 0)
    /\ (pc \in {"built", "failed"} /\ winRet.shape = "Ok") =>
            (dataCalls = 1 /\ dataArg = winRet.v)
    /\ (InNew /\ winRet.shape = "Err") =>
            (dataCalls = 0 /\ pc = "failed" /\ result.shape = "Err")

\* The window stage failed and new has returned without calling the data
\* initializer.
TwoStageWitness == pc = "failed" /\ winRet.shape = "Err" /\ dataCalls = 0

\* The data initializer's return value stands for a failure.
DataFailed(r) == r.shape \in {"None", "Err"}

DeclaredTrait(name) == (CHOOSE i \in 1..Len(Arms) : Arms[i].name = name)

\* C10 (dispatch totality): every variant of the generated enum matches
\* exactly one arm; every handle_event, handle_tick and handle_render call on
\* a value reaches the same-named method of the trait declared for the
\* value's variant, with the value's payload and, for handle_event, the event
\* that was polled.
DispatchTotality ==
    /\ \A s \in StateEnum : Cardinality(MatchingArms(s)) = 1
    /\ last.op # "none" =>
        /\ last.self \in StateEnum
        /\ last.call.trait = Arms[DeclaredTrait(last.self.name)].trait
        /\ last.call.method = last.op
        /\ last.call.args = last.self.args
        /\ Len(last.call.args) = Arms[DeclaredTrait(last.self.name)].nargs
        /\ last.call.event = last.event
        /\ last.op = "handle_event" <=> last.event # NoEvent

\* handle_tick on Test(15) has reached TestHandler::handle_tick with 15.
DispatchTotalityWitness ==
    /\ last.op = "handle_tick"
    /\ last.self = [name |-> "Test", args |-> <<InitialTest>>]
    /\ last.call = [trait |-> "TestHandler", method |-> "handle_tick", event |-> NoEvent, args |-> <<InitialTest>>]

MainState == [name |-> "Main", args |-> << >>]
TestState == [name |-> "Test", args |-> <<InitialTest>>]

\* The state the scheduler holds: handle_events' during a drain, run's otherwise.
Current == IF pc = "poll" THEN hstate ELSE state

\* C11 (Test/Main scenario): in the test program started in Test(15), the
\* first event handled is dispatched on Test(15) and returns Done(Main());
\* until then the state is Test(15) and every call goes to TestHandler; after
\* it the state is Main(), every call goes to MainHandler on Main(), and no
\* handle_event call returns Done again.
TestMainScenario ==
    pc \in RunPcs =>
        /\ handled = << >> =>
                (Current = TestState /\ last.call.trait \in {"none", "TestHandler"})
        /\ (Len(handled) = 1 /\ last.op = "handle_event") =>
                (last.self = TestState /\ last.action = Done(MainState))
        /\ Len(handled) >= 1 => Current = MainState
        /\ (Len(handled) >= 1 /\ ~(Len(handled) = 1 /\ last.op = "handle_event")) =>
                /\ last.self = MainState
                /\ last.call.trait = "MainHandler"
                /\ last.action.kind # "Done"

\* After the transition a second event was handled by MainHandler, and
\* handle_tick has been called on Main().
TestMainScenarioWitness ==
    /\ Len(handled) = 2
    /\ last.op = "handle_tick"
    /\ last.call.trait = "MainHandler"
    /\ state = MainState

TicksInFrame == Cardinality({ i \in 1..Len(frame) : frame[i] = "handle_tick" })

\* C12 (catch-up count): when the catch-up phase of an iteration has ended and
\* the accumulator held k*spf + r (0 <= r < spf) after the elapsed time was
\* added, the iteration has called handle_tick exactly k times and the
\* accumulator is r; the sleep that follows is asked to last spf - r.
CatchupCount ==
    pc \in {"sleep", "sleeping"} =>
        /\ TicksInFrame = added \div spf
        /\ accum = added % spf
        /\ pc = "sleeping" => sleepFor = spf - (added % spf)

\* 3.5 * spf (7 ms at spf = 2 ms) elapsed before the first timestamp: three
\* ticks, 0.5 * spf left in the accumulator, and a sleep of 0.5 * spf.
CatchupCountWitness ==
    /\ pc = "sleeping"
    /\ spf = 2 /\ added = 7
    /\ ticks = 3 /\ TicksInFrame = 3
    /\ accum = 1
    /\ sleepFor = 1

\* The time steps 1-4 of the latest iteration took: from the start of its
\* event phase to its call of sleep.
Computation == (wake - sleepFor) - frameStart

\* C13 (pacing clamp), as claimed: the sleep duration is never negative, and
\* it is zero in an iteration whose steps 1-4 took longer than spf.
PacingClamp ==
    pc = "sleeping" => (sleepFor >= 0 /\ (Computation > spf => sleepFor = 0))

\* C13, amended: the subtraction spf - accum never underflows; every sleep is
\* asked to last spf - accum, which is more than zero and at most spf, also
\* in an iteration whose steps 1-4 took longer than spf.
PacingNeverZero ==
    /\ pc # "panicked"
    /\ pc = "sleeping" => (sleepFor = spf - accum /\ 0 < sleepFor /\ sleepFor <= spf)

\* Steps 1-4 took 3 ms at spf = 2 ms and the loop still sleeps 1 ms.
PacingNeverZeroWitness ==
    pc = "sleeping" /\ spf = 2 /\ Computation = 3 /\ sleepFor = 1

\* C14 (strict quit draining), as claimed: no handle_event, handle_render or
\* handle_tick call is made after a handle_event call that returned Quit.
StrictQuitDraining == before.kind # "Quit"

\* C14, amended: after a handle_event call has returned Quit, the events still
\* queued for that drain are passed to handle_event all the same; nothing but
\* handle_event calls of that drain is dispatched, no other drain begins, and
\* handle_events returns when the drain is empty.
QuitFinishesDrain ==
    quitSeen =>
        /\ frame # << >>
        /\ \A i \in 1..Len(frame) : frame[i] = "handle_event"
        /\ pc \in {"poll", "returned"}
        /\ pc = "returned" => (queue = << >> /\ Len(handled) >= taken)

\* The first event of a drain returned Quit, the second was still passed to
\* handle_event, and run has returned.
QuitFinishesDrainWitness ==
    /\ pc = "returned"
    /\ before = Quit
    /\ last.op = "handle_event"
    /\ frame = << "handle_event", "handle_event" >>

\* C15 (Continue is a no-op on state): while the latest call is a handle_event
\* call that returned Continue, the scheduler's state is the value that call
\* was made on, and the call that follows is made on that value.
ContinueKeepsState ==
    /\ [](last.action = Continue => (pc \in RunPcs => Current = last.self))
    /\ [][(last.action = Continue /\ last' # last) => last'.self = last.self]_vars

\* handle_event on Test(16) returned Continue and handle_render was then
\* called on Test(16).
ContinueKeepsStateWitness ==
    /\ before = Continue
    /\ last.op = "handle_render"
    /\ last.self = [name |-> "Test", args |-> <<InitialTest + 1>>]
    /\ state = last.self

\* C16 (tick and render never cause a transition): a handle_tick or
\* handle_render call leaves the scheduler's state as it was, and while run is
\* looping the state changes only in a handle_event call that returned
\* Done(next), to next.
OnlyDoneChangesState ==
    [][ /\ (last' # last /\ last'.op \in {"handle_tick", "handle_render"}) =>
                (state' = state /\ hstate' = hstate /\ last'.self = state)
        /\ (pc \in RunPcs /\ pc' \in RunPcs /\ Current' # Current) =>
                /\ last' # last
                /\ last'.op = "handle_event"
                /\ last'.action.kind = "Done"
                /\ Current' = last'.action.next ]_vars

\* Two handle_tick calls have been made on Test(16), which is still the state.
OnlyDoneChangesStateWitness ==
    /\ last.op = "handle_tick"
    /\ TicksInFrame = 2
    /\ last.self = [name |-> "Test", args |-> <<InitialTest + 1>>]
    /\ state = last.self

\* C17 (termination on Quit): once a handle_event call has returned Quit, run
\* returns, and until it does the program stays in the drain the Quit was
\* returned in: no other iteration starts.
QuitTerminates ==
    /\ quitSeen ~> (pc = "returned")
    /\ [][quitSeen => (pc' \in {"poll", "returned"} /\ frameStart' = frameStart)]_vars

\* Quit was returned for the first of the two events of the drain of a later
\* iteration, Continue for the second, and run has returned.
QuitTerminatesWitness ==
    /\ pc = "returned"
    /\ frame = << "handle_event", "handle_event" >>
    /\ before = Quit
    /\ last.action = Continue
    /\ frameStart > 0

\* C18 (Quit is sticky within a drain): once a handle_event call of a drain
\* has returned Quit, the flag stays set until handle_events returns, which it
\* does with None, whatever the calls for the remaining events return; a
\* Done(next) returned after the Quit still replaces the state the drain
\* holds, and the call for the next event is made on it.
QuitSticky ==
    /\ [](quitSeen =>
            \/ pc = "returned"
            \/ pc = "poll" /\ quit /\ HandleEventsResult(quit, hstate) = None)
    /\ []((pc = "poll" /\ quit /\ last.action.kind = "Done")
            => hstate = last.action.next)
    /\ [][(pc = "poll" /\ quit /\ handled' # handled) => last'.self = hstate]_vars

\* Quit was returned for the first event of a drain and Done(Main()) for the
\* second, on Test(16): the drain ended holding Main() and run has returned.
QuitStickyWitness ==
    /\ pc = "returned"
    /\ frame = << "handle_event", "handle_event" >>
    /\ before = Quit
    /\ last.self = [name |-> "Test", args |-> <<InitialTest + 1>>]
    /\ last.action = Done([name |-> "Main", args |-> << >>])
    /\ hstate = last.action.next
    /\ quit

\* C19 (simulated-time conservation): when a catch-up phase has ended, the
\* handle_tick calls made since run started, at spf each, and what is left in
\* accum add up to the time between the timestamp run took when it started
\* and the latest timestamp of the timestep accounting.
TimeConservation ==
    pc = "sleep" => ticks * spf + accum = prev - start

\* The second iteration has ended its catch-up phase 7 ms after run started
\* at 2 ms a step: three handle_tick calls in all, 1 ms left over.
TimeConservationWitness ==
    /\ pc = "sleep"
    /\ spf = 2
    /\ frameStart > 0
    /\ prev - start = 7
    /\ ticks = 3
    /\ TicksInFrame = 2
    /\ accum = 1

\* The catch-up loop entered with a in accum and a step of s leaves after
\* finitely many handle_tick calls: after some n of them the condition of the
\* loop is false (n <= a is enough, every call taking at least 1 ms off).
EndsAfterFinitelyManyTicks(a, s) ==
    \E n \in 0..a : ~NeedsTick(a - n * s, s)

\* C20 (catch-up termination and frame budget): spf is floor(1000 / fps) from
\* the start of run to its end, and for every fps >= 1 the catch-up phase of
\* every iteration ends after finitely many handle_tick calls.
CatchupTerminates ==
    /\ pc \in RunPcs \cup {"returned"} => spf = MillisPerSec \div fps
    /\ pc = "catchup" => EndsAfterFinitelyManyTicks(accum, spf)

\* The same for the rates of at most 1000 frames a second, whose step is at
\* least 1 ms.
CatchupTerminatesUpTo1000 ==
    fps <= MillisPerSec => CatchupTerminates

\* C21 (as_result normalises an initializer's return value): of what the
\* data initializer returned, a plain value v gives Ok(v) and never an error,
\* Some(v) gives Ok(v), None gives Err(()), and a Result is returned as it
\* is, Ok(v) as Ok(v) and Err(e) as Err(e).
AsResultNormalises ==
    dataRet # NoReturn =>
        LET r == as_result(dataRet)
        IN /\ dataRet.shape = "plain" =>
                (r = [shape |-> "Ok", v |-> dataRet.v] /\ r.shape # "Err")
           /\ dataRet.shape = "Some" => r = [shape |-> "Ok", v |-> dataRet.v]
           /\ dataRet.shape = "None" => r = [shape |-> "Err", v |-> "unit"]
           /\ dataRet.shape = "Ok" => r = [shape |-> "Ok", v |-> dataRet.v]
           /\ dataRet.shape = "Err" => r = [shape |-> "Err", v |-> dataRet.v]
           /\ r.shape \in {"Ok", "Err"}

\* The data initializer returned Some(d) and new has returned the App, whose
\* data is d.
AsResultNormalisesWitness ==
    /\ pc = "built"
    /\ dataRet = [shape |-> "Some", v |-> "d"]
    /\ as_result(dataRet) = [shape |-> "Ok", v |-> "d"]
    /\ result.data = "d"

====
